---- MODULE Spec2Model ----
(***************************************************************************)
(* Model of src/main.py: one run of job(max_tokens, top_n).                *)
(*                                                                         *)
(* Text is modelled as a sequence of tokens: a body character is a         *)
(* one-character string, a tag or a delimiter is one token.  A Python dict *)
(* is a function whose DOMAIN is the set of keys it holds, so that a       *)
(* missing key ('summary' not in story) is a key outside the DOMAIN.       *)
(***************************************************************************)
EXTENDS Integers, Sequences, FiniteSets, TLC

\* ---- bounds of the model ------------------------------------------------
MaxEntries == 2   \* rows of class .athing on the front page
MaxTokens == 2    \* --max-tokens ranges over 1..MaxTokens
MaxTopN == 1      \* --top-n ranges over 0..MaxTopN
MaxUnset == 1     \* number of environment variables left unset
MaxBodyLen == 5   \* characters of a response body of the extraction proxy

\* ---- text helpers -------------------------------------------------------
Min(a, b) == IF a < b THEN a ELSE b

Alphabet == <<"a", "b", "c">>

\* a response body of n characters
Body(n) == [k \in 1..n |-> Alphabet[((k - 1) % 3) + 1]]

Bodies == {Body(MaxBodyLen)}

Whitespace == {" ", "\n"}

RECURSIVE LStrip(_)
LStrip(s) == IF s # <<>> /\ Head(s) \in Whitespace THEN LStrip(Tail(s)) ELSE s

RECURSIVE RStrip(_)
RStrip(s) ==
    IF s # <<>> /\ s[Len(s)] \in Whitespace
    THEN RStrip(SubSeq(s, 1, Len(s) - 1))
    ELSE s

\* str.strip()
Strip(s) == RStrip(LStrip(s))

\* sep.join(parts)
RECURSIVE Join(_, _)
Join(parts, sep) ==
    IF parts = <<>> THEN <<>>
    ELSE IF Len(parts) = 1 THEN parts[1]
    ELSE parts[1] \o sep \o Join(Tail(parts), sep)

\* a slice that forgets the budget
TruncateNoLimit(text, mt) == text

\* text[:max_tokens * 4]
Truncate(text, mt) == SubSeq(text, 1, Min(Len(text), mt * 4))

\* ---- environment --------------------------------------------------------
EnvVars ==
    {"JINA_KEY", "OPENAI_BASE", "OPENAI_MODEL", "OPENAI_API_KEY",
     "AZURE_SPEECH_KEY", "AZURE_SPEECH_REGION"}

Envs == {e \in SUBSET EnvVars : Cardinality(EnvVars \ e) <= MaxUnset}

\* a check that never raises
check_env_var_lenient(e, name) == TRUE

\* check_env_var returns normally iff the variable has a non-empty value
check_env_var(e, name) == name \in e

NoError == <<>>
ConfigError(name) == <<"ValueError", name>>

\* ---- the front page -----------------------------------------------------
Titles == {<<>>, <<"T">>}

\* one tr.athing: its id, whether it holds a '.titleline > a' (and that
\* anchor's text), and the tr that follows it: "none", "full" (score span and
\* comments link) or "bare" (neither)
WellFormed ==
    {[link |-> TRUE, title |-> t, row |-> "full"] : t \in Titles}
    \cup {[link |-> TRUE, title |-> <<"T">>, row |-> "bare"]}

Malformed ==
    {[link |-> FALSE, title |-> <<>>, row |-> "full"],
     [link |-> TRUE, title |-> <<"T">>, row |-> "none"]}

Entries == WellFormed \cup Malformed

Pages == UNION {[1..n -> Entries] : n \in 0..MaxEntries}

IsWellFormed(entry) == entry.link /\ entry.row # "none"

\* the dict appended to stories for the k-th entry
StoryOf(entry, k) ==
    [id |-> k,
     title |-> entry.title,
     url |-> <<"url", k>>,
     hacker_news_url |-> <<"https://news.ycombinator.com/item?id=", k>>,
     points |-> IF entry.row = "full" THEN "1 point" ELSE "0 points",
     comments |-> IF entry.row = "full" THEN "1 comment" ELSE "0 comments"]

\* the loop of fetch_hacker_news over soup.select('.athing'): None.text and
\* None.select_one raise AttributeError, which nothing catches
ParseListing(page) ==
    IF \E k \in 1..Len(page) : ~IsWellFormed(page[k])
    THEN [raised |-> TRUE, stories |-> <<>>]
    ELSE [raised |-> FALSE, stories |-> [k \in 1..Len(page) |-> StoryOf(page[k], k)]]

\* stories[:top_n] under 'if top_n:'
LimitTopN(s, n) == IF n # 0 THEN SubSeq(s, 1, Min(Len(s), n)) ELSE s

\* ---- assembling ---------------------------------------------------------
Separator == <<"\n", "\n", "---", "\n", "\n">>

Section(tag, text) == <<"<" \o tag \o ">", "\n">> \o text \o <<"\n", "</" \o tag \o ">">>

\* assembling without the 'if story_content:' and 'if comments_content:' guards
AssembleUnguarded(title, story_content, comments_content) ==
    LET content_parts ==
            (IF title # <<>> THEN <<Section("title", title)>> ELSE <<>>)
            \o <<Section("article", story_content)>>
            \o <<Section("comments", comments_content)>>
    IN Join(content_parts, Separator)

Assemble(title, story_content, comments_content) ==
    LET content_parts ==
            (IF title # <<>> THEN <<Section("title", title)>> ELSE <<>>)
            \o (IF story_content # <<>> THEN <<Section("article", story_content)>> ELSE <<>>)
            \o (IF comments_content # <<>> THEN <<Section("comments", comments_content)>> ELSE <<>>)
    IN Join(content_parts, Separator)

\* ---- external services: the answers they can give ------------------------
\* an answer of requests.get through the extraction proxy: a 2xx response, a
\* non-2xx response (both carry a body), or a RequestException
ProxyResponses == [kind : {"ok", "status"}, body : Bodies]

NetworkError == [kind |-> "error", body |-> <<>>]

\* not requested at all (the article request raised first)
NotRequested == [kind |-> "skipped", body |-> <<>>]

\* message.content of a completion, before .strip()
Completions == {<<"s1">>, <<" ", "s2", "\n">>}

\* result.reason of speak_text_async(...).get()
SynthesisReasons == {"SynthesizingAudioCompleted", "Canceled"}

\* ---- state --------------------------------------------------------------
VARIABLES
    pc,                   \* position in job: "listing", "loop", "narrating",
                          \*   "persisting", "done"; "aborted" when an
                          \*   exception left job
    env,                  \* os.environ: the variables with a non-empty value
    max_tokens, top_n,    \* arguments of job
    response,             \* what requests.get(url) of fetch_hacker_news gave
    stories,              \* list of dicts
    i,                    \* enumerate(stories, 1)
    all_summaries,
    concatenated_summary,
    http_calls,           \* every requests.get issued, in order
    fetch_log,            \* per processed story: both answers and the texts
                          \*   handed to the assembling code
    llm_calls,            \* every call of summarize_content
    tts_calls,            \* every call of text_to_speech
    narrator_result,      \* "none" before speak_text_async is reached
    audio_written,        \* the .mp3 holds synthesized audio
    json_written,         \* save_to_json has run
    json_file,            \* what it dumped
    error                 \* the exception that left job, NoError if none

vars ==
    <<pc, env, max_tokens, top_n, response, stories, i, all_summaries,
      concatenated_summary, http_calls, fetch_log, llm_calls, tts_calls,
      narrator_result, audio_written, json_written, json_file, error>>

NoResponse == [kind |-> "none", page |-> <<>>]

Init ==
    /\ pc = "listing"
    /\ env \in Envs
    /\ max_tokens \in 1..MaxTokens
    /\ top_n \in 0..MaxTopN
    /\ response = NoResponse
    /\ stories = <<>>
    /\ i = 1
    /\ all_summaries = <<>>
    /\ concatenated_summary = <<>>
    /\ http_calls = <<>>
    /\ fetch_log = <<>>
    /\ llm_calls = <<>>
    /\ tts_calls = <<>>
    /\ narrator_result = "none"
    /\ audio_written = FALSE
    /\ json_written = FALSE
    /\ json_file = <<>>
    /\ error = NoError

\* an exception propagates out of job
Abort(e) ==
    /\ pc' = "aborted"
    /\ error' = e

\* ---- job, lines 177-181: stories = fetch_hacker_news(); stories[:top_n] ---
\* The response is parsed whatever its status: response.ok is never looked at.
FetchHackerNews ==
    /\ pc = "listing"
    /\ http_calls' = Append(http_calls, <<"listing", 0>>)
    /\ \/ /\ response' = [kind |-> "error", page |-> <<>>]
          /\ Abort(<<"RequestException">>)
          /\ UNCHANGED stories
       \/ \E r \in ([kind : {"ok"}, page : Pages] \cup {[kind |-> "status", page |-> <<>>]}) :
            /\ response' = r
            /\ IF ParseListing(r.page).raised
               THEN /\ Abort(<<"AttributeError">>)
                    /\ UNCHANGED stories
               ELSE /\ stories' = LimitTopN(ParseListing(r.page).stories, top_n)
                    /\ pc' = "loop"
                    /\ UNCHANGED error
    /\ UNCHANGED <<env, max_tokens, top_n, i, all_summaries, concatenated_summary,
                   fetch_log, llm_calls, tts_calls, narrator_result,
                   audio_written, json_written, json_file>>

\* ---- get_hacker_news_story ------------------------------------------------
\* response.text[:max_tokens * 4] if response.ok, else the initial ''
FetchedText(r, mt) == IF r.kind = "ok" THEN Truncate(r.body, mt) ELSE <<>>

\* the requests.get calls one story issues: the comments request is not
\* reached when the article request raised
StoryRequests(k, art, com) ==
    IF art.kind = "error" THEN << <<"article", k>> >>
    ELSE << <<"article", k>>, <<"comments", k>> >>

\* the first unset variable summarize_content asks for, "" if none
MissingOpenAI(e) ==
    IF ~check_env_var(e, "OPENAI_BASE") THEN "OPENAI_BASE"
    ELSE IF ~check_env_var(e, "OPENAI_API_KEY") THEN "OPENAI_API_KEY"
    ELSE IF ~check_env_var(e, "OPENAI_MODEL") THEN "OPENAI_MODEL"
    ELSE ""

\* story[key] = value
SetKey(story, key, value) == (key :> value) @@ story

\* all_summaries.insert(0, summary)
PrependSummary(all, summary) == <<summary>> \o all

\* all_summaries.append(summary)
AppendSummary(all, summary) == Append(all, summary)

\* ---- job, lines 185-197: one iteration of the loop over stories ----------
ProcessStory ==
    /\ pc = "loop"
    /\ i <= Len(stories)
    /\ IF ~check_env_var(env, "JINA_KEY")
       THEN /\ Abort(ConfigError("JINA_KEY"))
            /\ UNCHANGED <<stories, i, all_summaries, http_calls, fetch_log, llm_calls>>
       ELSE \E art \in ProxyResponses \cup {NetworkError} :
            \E com \in (IF art.kind = "error" THEN {NotRequested}
                        ELSE ProxyResponses \cup {NetworkError}) :
              LET story_content == FetchedText(art, max_tokens)
                  comments_content == FetchedText(com, max_tokens)
                  content == Assemble(stories[i].title, story_content, comments_content)
                  with_content == SetKey(stories[i], "content", content)
              IN
              /\ http_calls' = http_calls \o StoryRequests(i, art, com)
              /\ fetch_log' = Append(fetch_log,
                    [article |-> art, comments |-> com,
                     story_content |-> story_content,
                     comments_content |-> comments_content])
              /\ IF content = <<>>
                 THEN /\ stories' = [stories EXCEPT ![i] = with_content]
                      /\ i' = i + 1
                      /\ UNCHANGED <<pc, error, all_summaries, llm_calls>>
                 ELSE IF MissingOpenAI(env) # ""
                 THEN /\ stories' = [stories EXCEPT ![i] = with_content]
                      /\ llm_calls' = Append(llm_calls,
                            [item |-> i, content |-> content, outcome |-> "unconfigured"])
                      /\ Abort(ConfigError(MissingOpenAI(env)))
                      /\ UNCHANGED <<i, all_summaries>>
                 ELSE \/ /\ stories' = [stories EXCEPT ![i] = with_content]
                         /\ llm_calls' = Append(llm_calls,
                               [item |-> i, content |-> content, outcome |-> "raised"])
                         /\ Abort(<<"CompletionError">>)
                         /\ UNCHANGED <<i, all_summaries>>
                      \/ \E completion \in Completions :
                           LET summary == Strip(completion) IN
                           /\ stories' = [stories EXCEPT
                                 ![i] = SetKey(with_content, "summary", summary)]
                           /\ llm_calls' = Append(llm_calls,
                                 [item |-> i, content |-> content, outcome |-> "returned"])
                           /\ all_summaries' = AppendSummary(all_summaries, summary)
                           /\ i' = i + 1
                           /\ UNCHANGED <<pc, error>>
    /\ UNCHANGED <<env, max_tokens, top_n, response, concatenated_summary, tts_calls,
                   narrator_result, audio_written, json_written, json_file>>

\* ---- job, lines 199-209: the loop is over; join the summaries ------------
Reducing ==
    /\ pc = "loop"
    /\ i > Len(stories)
    /\ concatenated_summary' = Join(all_summaries, <<"\n", "\n">>)
    /\ pc' = "narrating"
    /\ UNCHANGED <<env, max_tokens, top_n, response, stories, i, all_summaries,
                   http_calls, fetch_log, llm_calls, tts_calls, narrator_result,
                   audio_written, json_written, json_file, error>>

\* the first unset variable text_to_speech asks for, "" if none
MissingAzure(e) ==
    IF ~check_env_var(e, "AZURE_SPEECH_KEY") THEN "AZURE_SPEECH_KEY"
    ELSE IF ~check_env_var(e, "AZURE_SPEECH_REGION") THEN "AZURE_SPEECH_REGION"
    ELSE ""

\* ---- job, line 212: text_to_speech(speech_filename, concatenated_summary) -
\* Nothing in text_to_speech or around its call catches an exception; a
\* result whose reason is not SynthesizingAudioCompleted is only printed.
TextToSpeech ==
    /\ pc = "narrating"
    /\ tts_calls' = Append(tts_calls, concatenated_summary)
    /\ IF MissingAzure(env) # ""
       THEN /\ Abort(ConfigError(MissingAzure(env)))
            /\ UNCHANGED <<narrator_result, audio_written>>
       ELSE \/ /\ narrator_result' = "raised"
               /\ Abort(<<"SpeechSdkError">>)
               /\ UNCHANGED audio_written
            \/ \E reason \in SynthesisReasons :
                 /\ narrator_result' = reason
                 /\ audio_written' = (reason = "SynthesizingAudioCompleted")
                 /\ pc' = "persisting"
                 /\ UNCHANGED error
    /\ UNCHANGED <<env, max_tokens, top_n, response, stories, i, all_summaries,
                   concatenated_summary, http_calls, fetch_log, llm_calls,
                   json_written, json_file>>

\* ---- job, line 215: save_to_json(stories_filename, stories) --------------
SaveToJson ==
    /\ pc = "persisting"
    /\ json_written' = TRUE
    /\ json_file' = stories
    /\ pc' = "done"
    /\ UNCHANGED <<env, max_tokens, top_n, response, stories, i, all_summaries,
                   concatenated_summary, http_calls, fetch_log, llm_calls, tts_calls,
                   narrator_result, audio_written, error>>

Next ==
    \/ FetchHackerNews
    \/ ProcessStory
    \/ Reducing
    \/ TextToSpeech
    \/ SaveToJson

Spec == Init /\ [][Next]_vars

TypeOK ==
    /\ pc \in {"listing", "loop", "narrating", "persisting", "done", "aborted"}
    /\ env \in Envs
    /\ i \in 1..(Len(stories) + 1)
    /\ Len(fetch_log) <= Len(stories)

\* ---- vocabulary of the properties -----------------------------------------
Terminated == pc \in {"done", "aborted"}

IsPrefix(p, t) == Len(p) <= Len(t) /\ SubSeq(t, 1, Len(p)) = p

HasKey(story, key) == key \in DOMAIN story

\* the key is missing, or holds the empty text
Lacks(story, key) == ~HasKey(story, key) \/ story[key] = <<>>

\* how many times a request was issued
Attempts(target) == Cardinality({k \in DOMAIN http_calls : http_calls[k] = target})

\* the stories that carry a summary, in list order
Summarised(s) == SelectSeq(s, LAMBDA st : HasKey(st, "summary"))

\* their summaries with a blank line between neighbours
RECURSIVE BlankLineJoined(_)
BlankLineJoined(s) ==
    IF s = <<>> THEN <<>>
    ELSE IF Len(s) = 1 THEN s[1].summary
    ELSE s[1].summary \o <<"\n", "\n">> \o BlankLineJoined(Tail(s))

\* the ids of the well-formed entries of a page, in page order
RECURSIVE WellFormedIds(_, _)
WellFormedIds(page, k) ==
    IF k > Len(page) THEN <<>>
    ELSE (IF IsWellFormed(page[k]) THEN <<k>> ELSE <<>>) \o WellFormedIds(page, k + 1)

TitleOnly(title) == <<"<title>", "\n">> \o title \o <<"\n", "</title>">>

\* ---- C1 -------------------------------------------------------------------
\* C1: if the completion provider raises for item i, the run does not abort,
\* item i keeps no summary, the items after i are still processed and, once
\* the run is over, item i is in the persisted list.
C1_SummarizerFailureIsolated ==
    \A c \in 1..Len(llm_calls) :
        llm_calls[c].outcome = "raised" =>
            /\ pc # "aborted"
            /\ ~HasKey(stories[llm_calls[c].item], "summary")
            /\ (Terminated =>
                  /\ Len(fetch_log) = Len(stories)
                  /\ json_written
                  /\ llm_calls[c].item \in DOMAIN json_file)

\* ---- C2 -------------------------------------------------------------------
NarratorFailed ==
    /\ tts_calls # <<>>
    /\ \/ narrator_result \in {"Canceled", "raised"}
       \/ error \in {ConfigError("AZURE_SPEECH_KEY"), ConfigError("AZURE_SPEECH_REGION")}

\* C2: once the narrator has failed (a result that is not a success, or an
\* error raised inside text_to_speech), the run still ends with the
\* structured-data file holding the whole list.
C2_NarratorFailureStillPersists ==
    (NarratorFailed /\ Terminated) => (json_written /\ json_file = stories)

\* ---- C3 -------------------------------------------------------------------
\* the stories whose article request did not raise
FetchedStories ==
    SelectSeq(stories, LAMBDA st :
        st.id \in 1..Len(fetch_log) /\ fetch_log[st.id].article.kind # "error")

\* C3: after a completed run, an item whose article request raised a network
\* error has neither content nor summary, is an entry of the persisted list,
\* and its summary is not narrated; every item whose two requests succeeded
\* has a summary; the persisted list has as many entries as were listed.
C3_FailedFetchLeavesItemBare ==
    pc = "done" =>
        \A b \in 1..Len(fetch_log) :
            fetch_log[b].article.kind = "error" =>
                /\ Lacks(stories[b], "content")
                /\ Lacks(stories[b], "summary")
                /\ json_written
                /\ Len(json_file) = Len(stories)
                /\ b \in DOMAIN json_file
                /\ tts_calls = <<BlankLineJoined(Summarised(FetchedStories))>>
                /\ \A a \in 1..Len(fetch_log) :
                      (fetch_log[a].article.kind = "ok" /\ fetch_log[a].comments.kind = "ok")
                          => HasKey(stories[a], "summary")

\* ---- C4 -------------------------------------------------------------------
\* C4: whatever the mix of well-formed and malformed entries on a retrieved
\* front page, the listing does not fail and the stories are the well-formed
\* entries in page order (up to the top_n limit).
C4_MalformedEntriesSkipped ==
    response.kind = "ok" =>
        /\ error # <<"AttributeError">>
        /\ [k \in 1..Len(stories) |-> stories[k].id]
              = LimitTopN(WellFormedIds(response.page, 1), top_n)

\* ---- C5 -------------------------------------------------------------------
\* C5: a request that failed with a network error was attempted three times
\* before its failure showed: the listing request, each article request and
\* each comments request.
C5_FetchRetriedThreeTimes ==
    /\ response.kind = "error" => Attempts(<<"listing", 0>>) = 3
    /\ \A k \in 1..Len(fetch_log) :
          /\ fetch_log[k].article.kind = "error"
                => Attempts(<<"article", k>>) = 3
          /\ fetch_log[k].comments.kind = "error"
                => Attempts(<<"comments", k>>) = 3

C7_FetchedTextTruncated ==
    \A k \in 1..Len(fetch_log) :
        LET f == fetch_log[k] IN
        /\ Len(f.story_content) <= max_tokens * 4
        /\ Len(f.comments_content) <= max_tokens * 4
        /\ IsPrefix(f.story_content, f.article.body)
        /\ IsPrefix(f.comments_content, f.comments.body)
        /\ f.article.kind = "status" => f.story_content = <<>>
        /\ f.comments.kind = "status" => f.comments_content = <<>>
        /\ ("status" \in {f.article.kind, f.comments.kind}) =>
              /\ HasKey(stories[k], "content")
              /\ error # <<"RequestException">>

\* a body longer than the budget was cut, next to a non-success status
C7_Witness ==
    \E k \in 1..Len(fetch_log) :
        /\ fetch_log[k].article.kind = "ok"
        /\ Len(fetch_log[k].article.body) > max_tokens * 4
        /\ Len(fetch_log[k].story_content) = max_tokens * 4
        /\ fetch_log[k].comments.kind = "status"
        /\ fetch_log[k].comments.body # <<>>

\* ---- C8 -------------------------------------------------------------------
BothEmpty(k) ==
    fetch_log[k].story_content = <<>> /\ fetch_log[k].comments_content = <<>>

SummarizerInvokedOn(k, content) ==
    \E c \in 1..Len(llm_calls) :
        llm_calls[c].item = k /\ llm_calls[c].content = content

\* C8 as stated: every item whose two fetched texts are empty has the
\* title-tagged section as its whole content, and the summarizer was invoked
\* on it.
C8_EmptyFetchesGiveTitleOnly ==
    \A k \in 1..Len(fetch_log) :
        BothEmpty(k) =>
            /\ stories[k].content = TitleOnly(stories[k].title)
            /\ SummarizerInvokedOn(k, stories[k].content)

\* C8 amended: every item with a non-empty title whose two fetched texts are
\* empty has the title-tagged section as its whole content, and the
\* summarizer was invoked on it.
C8_EmptyFetchesGiveTitleOnlyWhenTitled ==
    \A k \in 1..Len(fetch_log) :
        (BothEmpty(k) /\ stories[k].title # <<>>) =>
            /\ stories[k].content = TitleOnly(stories[k].title)
            /\ SummarizerInvokedOn(k, stories[k].content)

\* a titled item, both requests answered with a non-success status, summarized
C8_Witness ==
    \E k \in 1..Len(fetch_log) :
        /\ fetch_log[k].article.kind = "status"
        /\ fetch_log[k].comments.kind = "status"
        /\ stories[k].title # <<>>
        /\ HasKey(stories[k], "summary")

\* ---- C9 -------------------------------------------------------------------
\* C9: text_to_speech is called at most once per run, exactly once in a run
\* that got past narrating, and the text it is given (and the text held when
\* narrating starts) is the summaries of the stories that carry one, in list
\* order, each once, a blank line between neighbours.
C9_NarrationIsJoinedSummaries ==
    /\ Len(tts_calls) <= 1
    /\ pc \in {"persisting", "done"} => Len(tts_calls) = 1
    /\ pc = "narrating" => concatenated_summary = BlankLineJoined(Summarised(stories))
    /\ \A c \in 1..Len(tts_calls) : tts_calls[c] = BlankLineJoined(Summarised(stories))

\* a narrated run with one story lacking a summary and one carrying one
C9_Witness ==
    /\ pc = "done"
    /\ tts_calls # <<>>
    /\ \E k \in 1..Len(stories) : ~HasKey(stories[k], "summary")
    /\ \E k \in 1..Len(stories) : HasKey(stories[k], "summary")

\* ---- C10 ------------------------------------------------------------------
\* C10: when the front page request raised or was answered with a
\* non-success status, the run aborts at once: no story is processed, the
\* narrator is not called and neither file is written.
C10_ListingFailureAborts ==
    response.kind \in {"error", "status"} =>
        /\ pc = "aborted"
        /\ fetch_log = <<>>
        /\ tts_calls = <<>>
        /\ ~json_written
        /\ ~audio_written

====
